---------------------------- MODULE Spec2Model ----------------------------
(***************************************************************************)
(* A model of src/src/Network.cpp (Leela Zero's network front end):        *)
(*   - Network::initialize: symmetry table, weight-file loading            *)
(*     (load_network_file, load_v1_network), tensor transforms, pipes;     *)
(*   - Network::get_output / probe_cache / get_output_internal and the     *)
(*     result cache;                                                       *)
(*   - Network::compare_net_outputs and its failure window.                *)
(* Floating-point values are modelled as exact integers (a fixed-point     *)
(* unit is named where it is used); size_t values keep their 64-bit width  *)
(* through the U64 operators.                                              *)
(***************************************************************************)
EXTENDS Integers, Sequences, FiniteSets, TLC

VARIABLES
    \* ---- Network::initialize and the loader
    pc,                     \* position inside Network::initialize
    asserts,                \* TRUE: assert() is compiled in (no NDEBUG)
    symmetry_nn_idx_table,  \* rows built so far: sequence of [vertex -> vertex]
    wtfile,                 \* the weight file being read (the input)
    m_value_head_not_stm,   \* the value-head-orientation flag
    linecount,              \* load_v1_network's linecount
    channels,               \* load_v1_network's channels
    residual_blocks,        \* load_v1_network's residual_blocks (a size_t)
    weights,                \* the tensor containers, as the data lines stored
    report,                 \* what myprintf reported on failure
    ret,                    \* load_network_file's return value, <<>> before
    pipes,                  \* the ForwardPipe objects and the calls they got
    \* ---- evaluation
    cfg,                    \* cfg_noise, cfg_random_cnt, side to move of the run
    m_nncache,              \* the result cache: cached hash -> result
    produced_by,            \* history: cached hash -> the pipe that computed the entry
    call,                   \* the last get_output call and what it returned
    \* ---- self-check
    m_selfcheck_fails,      \* the failure window (std::deque<bool>)
    checks,                 \* history: every outcome fed to compare_net_outputs
    thrown,                 \* TRUE once std::runtime_error was thrown
    workers                 \* worker threads inside compare_net_outputs, and
                            \* the holder of m_selfcheck_mutex (0: nobody)

loadVars == <<pc, asserts, symmetry_nn_idx_table, wtfile, m_value_head_not_stm,
              linecount, channels, residual_blocks, weights, report, ret, pipes>>
evalVars == <<cfg, m_nncache, produced_by, call>>
checkVars == <<m_selfcheck_fails, checks, thrown, workers>>
vars == <<loadVars, evalVars, checkVars>>

(***************************************************************************)
(* Bounds of the model.                                                    *)
(***************************************************************************)
\* the compile-time board size, scaled down
BOARD_SIZE == 3
\* the largest number of residual blocks a weight file of the model holds
MaxBlocks == 1
\* the largest channel count (tokens on the second data line)
MaxChannels == 1
\* the number of self-checks a run feeds to compare_net_outputs
MaxChecks == 12
\* the get_output calls of a run that are sampled for a self-check
MaxSampled == 4
\* the worker threads that call compare_net_outputs concurrently
MaxWorkers == 2

(***************************************************************************)
(* Symmetries.                                                             *)
(***************************************************************************)
NUM_INTERSECTIONS == BOARD_SIZE * BOARD_SIZE
NUM_SYMMETRIES == 8
IDENTITY_SYMMETRY == 0
Symmetries == 0 .. (NUM_SYMMETRIES - 1)
Vertices == 0 .. (NUM_INTERSECTIONS - 1)

\* (symmetry & b) != 0 for a power of two b
BitSet(symmetry, b) == (symmetry \div b) % 2 = 1

\* a plausible slip: the mirrors are applied before the transpose
get_symmetry_mirror_first(vertex, symmetry) ==
    LET x0 == vertex[1]
        y0 == vertex[2]
        x1 == IF BitSet(symmetry, 2) THEN BOARD_SIZE - x0 - 1 ELSE x0
        y1 == IF BitSet(symmetry, 1) THEN BOARD_SIZE - y0 - 1 ELSE y0
    IN  IF BitSet(symmetry, 4) THEN <<y1, x1>> ELSE <<x1, y1>>

\* Network::get_symmetry: swap, then x mirror, then y mirror
get_symmetry(vertex, symmetry) ==
    LET x0 == vertex[1]
        y0 == vertex[2]
        x1 == IF BitSet(symmetry, 4) THEN y0 ELSE x0
        y1 == IF BitSet(symmetry, 4) THEN x0 ELSE y0
        x2 == IF BitSet(symmetry, 2) THEN BOARD_SIZE - x1 - 1 ELSE x1
        y2 == IF BitSet(symmetry, 1) THEN BOARD_SIZE - y1 - 1 ELSE y1
    IN  <<x2, y2>>

\* the inner loop of "Prepare symmetry table" for one s
SymmetryRow(s) ==
    [v \in Vertices |->
        LET newvtx == get_symmetry(<<v % BOARD_SIZE, v \div BOARD_SIZE>>, s)
        IN  (newvtx[2] * BOARD_SIZE) + newvtx[1]]

\* the table once the outer loop has finished, indexed 0 .. 7
FullTable == [s \in Symmetries |-> SymmetryRow(s)]

\* symmetry_nn_idx_table[s][v] of a table under construction (rows are 1-based)
TableAt(s, v) == symmetry_nn_idx_table[s + 1][v]

(***************************************************************************)
(* size_t arithmetic.  A size_t value is [hi, lo], standing for            *)
(* hi * 2^60 + lo; hi = 16 occurs only with lo < 0 (a value just below     *)
(* 2^64).  Only the operations the loader performs are defined.            *)
(***************************************************************************)
U64(n) == IF n < 0 THEN [hi |-> 16, lo |-> n] ELSE [hi |-> 0, lo |-> n]
\* x % 16, since 16 divides 2^60
U64Mod16(x) == x.lo % 16
\* x / 16 for x divisible by 16
U64Div16(x) == [hi |-> x.hi \div 16, lo |-> x.lo \div 16]
\* (x * 16 + k) mod 2^64 for a small k
U64Mul16Add(x, k) == U64(x.lo * 16 + k)
\* (x + k) mod 2^64 for a small k >= 0
U64Add(x, k) == IF x.hi = 16 THEN U64(x.lo + k) ELSE [hi |-> x.hi, lo |-> x.lo + k]
\* n < x and n == x for a small n >= 0
U64Less(n, x) == x.hi > 0 \/ n < x.lo
U64Eq(n, x) == x.hi = 0 /\ n = x.lo
\* static_cast<int>(x): the low 32 bits, |lo| < 2^31
U64ToInt(x) == x.lo
\* the conversion int -> size_t of std::tie(channels, residual_blocks) = pair<int,int>
IntToU64(n) == U64(n)


(***************************************************************************)
(* The weight file.  A data line is known by its 0-based index; what the   *)
(* loader can observe of it is whether it is a pure float sequence         *)
(* (LineParses), how many tokens it holds (only read on the second data    *)
(* line) and whether that number is the size its tensor slot requires      *)
(* (LineFits).  A file of the model has at most one defective line.        *)
(***************************************************************************)
MaxLines == 22 + 16 * MaxBlocks + 1
VersionLines == {[fail |-> FALSE, value |-> v] : v \in {502, 1, 2, 3}}
                \cup {[fail |-> TRUE, value |-> 0]}
NoFile == [open |-> "unset", empty |-> TRUE, version |-> [fail |-> TRUE, value |-> 0],
           nlines |-> 0, tokens |-> 0, badline |-> -1, badkind |-> "none"]
UnreadableFiles ==
    {[NoFile EXCEPT !.open = o] : o \in {"noopen", "readerr"}}
ReadableFiles ==
    {[NoFile EXCEPT !.open = "ok"]}
    \cup {[open |-> "ok", empty |-> FALSE, version |-> v, nlines |-> n,
           tokens |-> t, badline |-> b[1], badkind |-> b[2]] :
            v \in VersionLines, n \in 0 .. MaxLines, t \in 0 .. MaxChannels,
            b \in {<<-1, "none">>} \cup ((0 .. (MaxLines - 1)) \X {"token", "length"})}
Files == UnreadableFiles
         \cup {f \in ReadableFiles :
                 /\ f.badline < f.nlines
                 /\ (f.nlines < 2 => f.tokens = 0)
                 \* the second data line is the one that defines channels
                 /\ ~(f.badkind = "length" /\ f.badline = 1)
                 \* a version line that is rejected ends the read: one file stands for all
                 /\ (f.version.fail \/ f.version.value \notin {502, 2})
                      => (f.nlines = 0 /\ f.tokens = 0 /\ f.badkind = "none")}

LineParses(f, i) == ~(f.badkind = "token" /\ f.badline = i)
LineFits(f, i) == ~(f.badkind = "length" /\ f.badline = i)

(***************************************************************************)
(* The tensor containers.  Each holds the indices of the data lines stored *)
(* in it, in order.                                                        *)
(***************************************************************************)
InputSlots == <<"conv_weights", "batchnorm_gammas", "batchnorm_betas",
                "batchnorm_means", "batchnorm_stddivs", "prelu_alphas">>
ResidualSlots == <<"conv_weights", "batchnorm_gammas", "batchnorm_betas",
                   "batchnorm_means", "batchnorm_stddivs", "prelu_alphas",
                   "conv_weights", "batchnorm_gammas", "batchnorm_betas",
                   "batchnorm_means", "batchnorm_stddivs",
                   "se_fc1_w", "se_fc1_b", "se_fc2_w", "se_fc2_b", "prelu_alphas">>
HeadSlots == <<"conv_pol_w", "conv_pol_b", "bn_pol_w1", "bn_pol_w2",
               "prelu_pol_alpha", "ip_pol_w", "ip_pol_b",
               "conv_val_w", "conv_val_b", "bn_val_w1", "bn_val_w2",
               "prelu_val_alpha", "ip1_val_w", "ip1_val_b", "ip2_val_w", "ip2_val_b">>
Containers == {InputSlots[i] : i \in 1 .. 6} \cup {ResidualSlots[i] : i \in 1 .. 16}
              \cup {HeadSlots[i] : i \in 1 .. 16}
EmptyWeights == [c \in Containers |-> <<>>]

\* the cases of the switch that carry an assert on weights.size()
AssertedResidualCases == (0 .. 15) \ {11, 12, 13}
\* the head slots filled by std::copy into a fixed-size array
CopiedHeadCases == (0 .. 15) \ {0, 1, 7, 8}

NoReport == [kind |-> "none", line |-> 0]
NoPipes == [m_forward |-> "null", fp16net |-> "null", m_forward_cpu |-> "null",
            log |-> <<>>]

(***************************************************************************)
(* Network::load_network_file and Network::load_v1_network.                *)
(***************************************************************************)
\* if (iss.fail() || (format_version != 502))
VersionRejected(version) == version.fail \/ (version.value # 502)

\* if (residual_blocks % 16 != 0)
Inconsistent(blocks) == U64Mod16(blocks) # 0

\* if (!ok || it_line != line.cend())
ParseFailed(f, i) == ~LineParses(f, i)

\* a plausible slip: the version line is not counted
ErrorLineOffByOne(lc) == lc + 1

\* linecount + 2: +1 from version line, +1 from 0-indexing
ErrorLine(lc) == lc + 2

\* a plausible slip: the return value is not looked at
LoadFailedNever(r) == FALSE

\* if (channels == 0) in Network::initialize
LoadFailed(r) == r[1] = 0

\* const auto plain_conv_wts = input_weights + residual_blocks * 16
plain_conv_wts(blocks) == U64Mul16Add(blocks, 6)

Fail(kind, line) ==
    /\ report' = [kind |-> kind, line |-> line]
    /\ ret' = <<0, 0>>
    /\ pc' = "returned"

\* gzopen, gzread into the buffer
OpenFile ==
    /\ pc = "open"
    /\ \E f \in Files :
        /\ wtfile' = f
        /\ CASE f.open = "noopen" -> Fail("open", 0)
             [] f.open = "readerr" -> Fail("read", 0)
             [] OTHER -> pc' = "version" /\ UNCHANGED <<report, ret>>
    /\ UNCHANGED <<asserts, symmetry_nn_idx_table, m_value_head_not_stm, linecount,
                   channels, residual_blocks, weights, pipes>>
    /\ UNCHANGED <<evalVars, checkVars>>

\* "Read format version"
ReadVersion ==
    /\ pc = "version"
    /\ IF wtfile.empty
         THEN /\ ret' = <<0, 0>>
              /\ pc' = "returned"
              /\ UNCHANGED <<report, m_value_head_not_stm>>
         ELSE IF VersionRejected(wtfile.version)
                THEN /\ Fail("version", 1)
                     /\ UNCHANGED m_value_head_not_stm
                ELSE /\ m_value_head_not_stm' = (wtfile.version.value = 2)
                     /\ pc' = "count"
                     /\ UNCHANGED <<report, ret>>
    /\ UNCHANGED <<asserts, symmetry_nn_idx_table, wtfile, linecount,
                   channels, residual_blocks, weights, pipes>>
    /\ UNCHANGED <<evalVars, checkVars>>

\* the first pass of load_v1_network: "Count size of the network"
CountLines ==
    /\ pc = "count"
    /\ LET lc == 1 + wtfile.nlines
           ch == IF wtfile.nlines >= 2 THEN wtfile.tokens ELSE 0
           blocks == U64(lc - (1 + 6 + 16))
       IN  /\ channels' = ch
           /\ IF Inconsistent(blocks)
                THEN /\ Fail("count", 0)
                     /\ linecount' = lc
                     /\ residual_blocks' = blocks
                ELSE /\ residual_blocks' = U64Div16(blocks)
                     /\ linecount' = 0
                     /\ pc' = "parse"
                     /\ UNCHANGED <<report, ret>>
    /\ UNCHANGED <<asserts, symmetry_nn_idx_table, wtfile, m_value_head_not_stm,
                   weights, pipes>>
    /\ UNCHANGED <<evalVars, checkVars>>

\* where the second pass routes data line lc: <<kind of slot, container>>
Route(blocks, lc) ==
    IF lc < 6
      THEN <<"input", InputSlots[(lc % 6) + 1]>>
      ELSE IF U64Less(lc, plain_conv_wts(blocks))
             THEN <<IF ((lc - 6) % 16) \in AssertedResidualCases
                      THEN "asserted" ELSE "residual",
                    ResidualSlots[((lc - 6) % 16) + 1]>>
             ELSE IF \E k \in 0 .. 15 : U64Eq(lc, U64Add(plain_conv_wts(blocks), k))
                    THEN LET k == CHOOSE j \in 0 .. 15 :
                                     U64Eq(lc, U64Add(plain_conv_wts(blocks), j))
                         IN  <<IF k \in CopiedHeadCases THEN "copied" ELSE "moved",
                               HeadSlots[k + 1]>>
                    ELSE <<"ignored", "">>

\* the emplace_back, std::move or std::copy of data line lc
Store(w, blocks, lc) ==
    LET r == Route(blocks, lc)
    IN  CASE r[1] \in {"input", "residual", "asserted"} ->
               [w EXCEPT ![r[2]] = Append(@, lc)]
          [] r[1] \in {"copied", "moved"} -> [w EXCEPT ![r[2]] = <<lc>>]
          [] OTHER -> w

\* one turn of the second pass's while loop
ParseLine ==
    /\ pc = "parse"
    /\ linecount < wtfile.nlines
    /\ LET r == Route(residual_blocks, linecount)
       IN  IF ParseFailed(wtfile, linecount)
             THEN /\ Fail("parse", ErrorLine(linecount))
                  /\ UNCHANGED <<weights, linecount>>
             ELSE IF r[1] = "asserted" /\ asserts /\ ~LineFits(wtfile, linecount)
                    THEN \* assert(weights.size() == ...) fails: abort()
                         /\ pc' = "aborted"
                         /\ UNCHANGED <<weights, linecount, report, ret>>
                    ELSE /\ weights' = Store(weights, residual_blocks, linecount)
                         /\ linecount' = linecount + 1
                         /\ UNCHANGED <<report, ret>>
                         \* std::copy of a line longer than the array writes past it
                         /\ IF r[1] = "copied" /\ ~LineFits(wtfile, linecount)
                              THEN pc' \in {"parse", "crashed"}
                              ELSE pc' = "parse"
    /\ UNCHANGED <<asserts, symmetry_nn_idx_table, wtfile, m_value_head_not_stm,
                   channels, residual_blocks, pipes>>
    /\ UNCHANGED <<evalVars, checkVars>>

\* return {channels, static_cast<int>(residual_blocks)}
ReturnLoaded ==
    /\ pc = "parse"
    /\ linecount = wtfile.nlines
    /\ ret' = <<channels, U64ToInt(residual_blocks)>>
    /\ pc' = "returned"
    /\ UNCHANGED <<asserts, symmetry_nn_idx_table, wtfile, m_value_head_not_stm,
                   linecount, channels, residual_blocks, weights, report, pipes>>
    /\ UNCHANGED <<evalVars, checkVars>>


(***************************************************************************)
(* Network::initialize.                                                    *)
(***************************************************************************)
\* "Prepare symmetry table": one turn of the loop over s
BuildSymmetryRow ==
    /\ pc = "symmetry"
    /\ LET s == Len(symmetry_nn_idx_table)
       IN  /\ symmetry_nn_idx_table' = Append(symmetry_nn_idx_table, SymmetryRow(s))
           /\ pc' = IF s + 1 < NUM_SYMMETRIES THEN "symmetry" ELSE "open"
    /\ UNCHANGED <<asserts, wtfile, m_value_head_not_stm, linecount, channels,
                   residual_blocks, weights, report, ret, pipes>>
    /\ UNCHANGED <<evalVars, checkVars>>

\* if (channels == 0) exit(EXIT_FAILURE)
CheckLoaded ==
    /\ pc = "returned"
    /\ pc' = IF LoadFailed(ret) THEN "exited" ELSE "transform"
    /\ UNCHANGED <<asserts, symmetry_nn_idx_table, wtfile, m_value_head_not_stm,
                   linecount, channels, residual_blocks, weights, report, ret, pipes>>
    /\ UNCHANGED <<evalVars, checkVars>>

\* residual_blocks as Network::initialize holds it (size_t from the returned int)
InitBlocks == IntToU64(ret[2])

\* every vector the transforms and the pushes index is there
TensorsPresent ==
    /\ InitBlocks.hi = 0
    /\ Len(weights["conv_weights"]) >= 1 + 2 * InitBlocks.lo
    /\ \A c \in {"batchnorm_gammas", "batchnorm_means", "batchnorm_stddivs"} :
          Len(weights[c]) >= Len(weights["batchnorm_betas"])
    /\ Len(weights["prelu_alphas"]) >= 1 + 2 * InitBlocks.lo
    /\ \A c \in {"se_fc1_w", "se_fc1_b", "se_fc2_w", "se_fc2_b"} :
          Len(weights[c]) >= InitBlocks.lo
    /\ Len(weights["conv_val_b"]) = 1
    /\ Len(weights["conv_pol_b"]) = 1

\* the Winograd transforms of the convolutions, in order, then the fusions
TransformLog ==
    [i \in 1 .. (1 + 2 * InitBlocks.lo) |-> <<"winograd_transform_f", i - 1>>]
    \o <<<<"fuse_batchnorm", Len(weights["batchnorm_betas"])>>,
         <<"fuse_bias", "val">>, <<"fuse_bias", "pol">>>>

\* lines 425-457: Winograd transform and batch-norm fusion
Transform ==
    /\ pc = "transform"
    /\ IF ~TensorsPresent
         THEN \* the loops index the vectors past their end until the process faults
              /\ pc' = "crashed"
              /\ UNCHANGED pipes
         ELSE /\ pipes' = [pipes EXCEPT !.log = TransformLog]
              \* a tensor of the wrong size is read or written out of range
              /\ IF wtfile.badkind = "length"
                   THEN pc' \in {"pipes", "crashed"}
                   ELSE pc' = "pipes"
    /\ UNCHANGED <<asserts, symmetry_nn_idx_table, wtfile, m_value_head_not_stm,
                   linecount, channels, residual_blocks, weights, report, ret>>
    /\ UNCHANGED <<evalVars, checkVars>>

\* the build (USE_OPENCL, USE_HALF, USE_OPENCL_SELFCHECK) and the configuration
Builds == [opencl : BOOLEAN, half : BOOLEAN, selfcheck : BOOLEAN,
           cpu_only : BOOLEAN, precision : {"AUTO", "SINGLE", "HALF"}]

\* lines 459-511: which pipes are made
MakePipes(b) ==
    LET cpu == ~b.opencl \/ b.cpu_only
        auto == ~cpu /\ b.half /\ b.precision = "AUTO"
        fwd == IF cpu THEN "CPUPipe"
               ELSE IF b.half /\ b.precision = "HALF" THEN "OpenCL_half"
               ELSE "OpenCL_float"
        use_selfcheck == ~cpu
    IN  [m_forward |-> fwd,
         fp16net |-> IF auto THEN "OpenCL_half" ELSE "null",
         m_forward_cpu |-> IF b.selfcheck /\ use_selfcheck THEN "CPUPipe_ref" ELSE "null"]

\* to_init, in the order of the emplace_back calls
ToInit(p) ==
    (IF p.fp16net # "null" THEN <<p.fp16net>> ELSE <<>>)
    \o <<p.m_forward>>
    \o (IF p.m_forward_cpu # "null" THEN <<p.m_forward_cpu>> ELSE <<>>)

\* a plausible slip: the value head is pushed before the policy head
PipeCallsValueFirst(p) ==
    <<<<p, "initialize", ret[1]>>, <<p, "push_input_convolution", <<0>>>>>>
    \o [i \in 1 .. InitBlocks.lo |->
          <<p, "push_residual", <<2 * (i - 1) + 1, 2 * (i - 1) + 2, i - 1>>>>]
    \o <<<<p, "push_convolve", "conv_val_w">>, <<p, "push_convolve", "conv_pol_w">>>>

\* the body of the loop over to_init for one pipe
PipeCalls(p) ==
    <<<<p, "initialize", ret[1]>>, <<p, "push_input_convolution", <<0>>>>>>
    \o [i \in 1 .. InitBlocks.lo |->
          <<p, "push_residual", <<2 * (i - 1) + 1, 2 * (i - 1) + 2, i - 1>>>>]
    \o <<<<p, "push_convolve", "conv_pol_w">>, <<p, "push_convolve", "conv_val_w">>>>

RECURSIVE AllPipeCalls(_)
AllPipeCalls(ps) ==
    IF ps = <<>> THEN <<>> ELSE PipeCalls(Head(ps)) \o AllPipeCalls(Tail(ps))

\* lines 459-549: make the pipes and load the tensors into each
InitializePipes ==
    /\ pc = "pipes"
    /\ \E b \in Builds :
         LET p == MakePipes(b)
         IN  pipes' = [m_forward |-> p.m_forward, fp16net |-> p.fp16net,
                       m_forward_cpu |-> p.m_forward_cpu,
                       log |-> pipes.log \o AllPipeCalls(ToInit(p))]
    /\ pc' = "benchmark"
    /\ UNCHANGED <<asserts, symmetry_nn_idx_table, wtfile, m_value_head_not_stm,
                   linecount, channels, residual_blocks, weights, report, ret>>
    /\ UNCHANGED <<evalVars, checkVars>>


(***************************************************************************)
(* Network results.  A float is an integer number of 1/One; the fake       *)
(* network below produces multiples of 64, so that dividing by             *)
(* NUM_SYMMETRIES is exact, as dividing a float by 8 is, and One is not    *)
(* such a multiple, so that 1 - w is never itself a raw output.            *)
(***************************************************************************)
One == 64 * NUM_INTERSECTIONS * NUM_INTERSECTIONS + 4
NaN == 0 - (4 * One)

\* Netresult's constructor: everything zero
ZeroResult == [policy |-> [v \in Vertices |-> 0], policy_pass |-> 0, winrate |-> 0]

(***************************************************************************)
(* The self-check: relative_difference and Network::compare_net_outputs.   *)
(***************************************************************************)
max_failures == 3
last_failure_window == 10

Abs(x) == IF x < 0 THEN -x ELSE x
Max2(x, y) == IF x > y THEN x ELSE y
Min2(x, y) == IF x < y THEN x ELSE y

\* std::numeric_limits<T>::max(), as a quotient
FloatMax == <<1, 0>>

\* a plausible slip: the signs are compared whatever the magnitudes
relative_difference_signs_first(a, b) ==
    IF a = NaN \/ b = NaN \/ (a < 0) # (b < 0)
      THEN FloatMax
      ELSE <<Abs(Max2(361 * Abs(a), One) - Max2(361 * Abs(b), One)),
             Min2(Max2(361 * Abs(a), One), Max2(361 * Abs(b), One))>>

\* relative_difference(a, b), as the quotient <<numerator, denominator>>;
\* magnitudes are scaled by 361 so that small_number = 1/361 is One
relative_difference(a, b) ==
    IF a = NaN \/ b = NaN
      THEN FloatMax
      ELSE LET fa == 361 * Abs(a)
               fb == 361 * Abs(b)
           IN  IF fa > One /\ fb > One
                 THEN IF (a < 0) # (b < 0)
                        THEN FloatMax
                        ELSE <<Abs(fa - fb), Min2(fa, fb)>>
                 ELSE <<Abs(Max2(fa, One) - Max2(fb, One)),
                        Min2(Max2(fa, One), Max2(fb, One))>>

\* err > relative_error, relative_error = 2e-1f
ExceedsRelativeError(err) == err = FloatMax \/ 5 * err[1] > err[2]

\* lines 691-706: the comparison of the two results
selfcheck_fail(data, ref) ==
    \/ \E idx \in Vertices :
          ExceedsRelativeError(relative_difference(data.policy[idx], ref.policy[idx]))
    \/ ExceedsRelativeError(relative_difference(data.policy_pass, ref.policy_pass))
    \/ ExceedsRelativeError(relative_difference(data.winrate, ref.winrate))

\* std::count(begin(m_selfcheck_fails), end(m_selfcheck_fails), true)
CountFails(w) == Cardinality({i \in 1 .. Len(w) : w[i]})

\* a plausible slip: the error is raised only above max_failures
SelfcheckThrowsAbove(w, fail) == fail /\ CountFails(w) > max_failures

\* the condition under which std::runtime_error is thrown, after the emplace_back
SelfcheckThrows(w, fail) == fail /\ CountFails(w) >= max_failures

\* a plausible slip: the window keeps last_failure_window entries between checks
RECURSIVE TrimWindowKeepsTen(_)
TrimWindowKeepsTen(w) ==
    IF Len(w) > last_failure_window THEN TrimWindowKeepsTen(Tail(w)) ELSE w

\* while (m_selfcheck_fails.size() >= last_failure_window) pop_front()
RECURSIVE TrimWindow(_)
TrimWindow(w) ==
    IF Len(w) >= last_failure_window THEN TrimWindow(Tail(w)) ELSE w

\* lines 708-722 for one outcome: <<the window afterwards, thrown>>
RecordSelfcheck(w, fail) ==
    LET w2 == Append(w, fail)
    IN  IF SelfcheckThrows(w2, fail) THEN <<w2, TRUE>> ELSE <<TrimWindow(w2), FALSE>>

\* the values relative_difference is applied to: NaN, zero, and either sign
\* of a magnitude just below the floor 1/361, just above it, and well above
DiffValues ==
    LET f == One \div 361
    IN  {NaN, 0, One} \cup {f, f + 1, 10 * f, 12 * f}
        \cup {0 - f, 0 - (f + 1), 0 - (10 * f), 0 - (12 * f)}

\* relative_difference(a, b), called on its own
RelativeDifference ==
    /\ \E a \in DiffValues, b \in DiffValues :
         call' = [op |-> "relative_difference", a |-> a, b |-> b,
                  err |-> relative_difference(a, b)]
    /\ UNCHANGED <<loadVars, cfg, m_nncache, produced_by, checkVars>>

\* the values a compared element takes in the model
CheckValues == {0, 64, One \div 4, One \div 2, 0 - (One \div 2), NaN}
BaseResult == [policy |-> [v \in Vertices |-> One \div 4],
               policy_pass |-> One \div 4, winrate |-> One \div 2]
WithValue(field, x) ==
    CASE field = "policy" -> [BaseResult EXCEPT !.policy[0] = x]
      [] field = "policy_pass" -> [BaseResult EXCEPT !.policy_pass = x]
      [] OTHER -> [BaseResult EXCEPT !.winrate = x]

\* Network::compare_net_outputs(data, ref)
CompareNetOutputs ==
    /\ ~thrown
    /\ Len(checks) < MaxChecks
    /\ \E field \in {"policy", "policy_pass", "winrate"}, a \in CheckValues,
          b \in CheckValues :
         LET fail == selfcheck_fail(WithValue(field, a), WithValue(field, b))
             r == RecordSelfcheck(m_selfcheck_fails, fail)
         IN  /\ m_selfcheck_fails' = r[1]
             /\ thrown' = r[2]
             /\ checks' = Append(checks, fail)
    /\ UNCHANGED <<loadVars, evalVars, workers>>

\* the reference pipe's result for a pass whose primary result is raw: the
\* same, or one that differs beyond the tolerance
Diverged(raw) == [raw EXCEPT !.winrate = NaN]
RefResults(raw) == {raw, Diverged(raw)}

\* the worker threads, none of them inside compare_net_outputs
Workers == 1 .. MaxWorkers
IdleWorkers ==
    [lock |-> 0, at |-> [w \in Workers |-> "idle"], fail |-> [w \in Workers |-> FALSE]]
\* the workers that will still append an outcome
Pending == {w \in Workers : workers.at[w] \in {"compared", "locked"}}

\* lines 691-706 in worker w: selfcheck_fail of its two results
Compare(w) ==
    /\ ~thrown
    /\ workers.at[w] = "idle"
    /\ Len(checks) + Cardinality(Pending) < MaxChecks
    /\ \E ref \in RefResults(BaseResult) :
         workers' = [workers EXCEPT !.at[w] = "compared",
                                    !.fail[w] = selfcheck_fail(BaseResult, ref)]
    /\ UNCHANGED <<loadVars, evalVars, m_selfcheck_fails, checks, thrown>>

\* a plausible slip: the window is updated without taking the lock
LockFreeAlways(w) == TRUE

\* LOCK(m_selfcheck_mutex, selfcheck_lock) can be passed
LockFree(w) == workers.lock = 0

\* line 708 in worker w
Lock(w) ==
    /\ ~thrown
    /\ workers.at[w] = "compared"
    /\ LockFree(w)
    /\ workers' = [workers EXCEPT !.at[w] = "locked", !.lock = w]
    /\ UNCHANGED <<loadVars, evalVars, m_selfcheck_fails, checks, thrown>>

\* line 709 in worker w
EmplaceBack(w) ==
    /\ ~thrown
    /\ workers.at[w] = "locked"
    /\ m_selfcheck_fails' = Append(m_selfcheck_fails, workers.fail[w])
    /\ checks' = Append(checks, workers.fail[w])
    /\ workers' = [workers EXCEPT !.at[w] = "appended"]
    /\ UNCHANGED <<loadVars, evalVars, thrown>>

\* lines 710-717 in worker w; the exception ends the process
CountFailures(w) ==
    /\ ~thrown
    /\ workers.at[w] = "appended"
    /\ IF SelfcheckThrows(m_selfcheck_fails, workers.fail[w])
         THEN /\ thrown' = TRUE
              /\ UNCHANGED workers
         ELSE /\ workers' = [workers EXCEPT !.at[w] = "counted"]
              /\ UNCHANGED thrown
    /\ UNCHANGED <<loadVars, evalVars, m_selfcheck_fails, checks>>

\* lines 719-722 in worker w: trim the window, leave the scope of the lock
PopFront(w) ==
    /\ ~thrown
    /\ workers.at[w] = "counted"
    /\ m_selfcheck_fails' = TrimWindow(m_selfcheck_fails)
    /\ workers' = [workers EXCEPT !.at[w] = "idle",
                                  !.lock = IF @ = w THEN 0 ELSE @]
    /\ UNCHANGED <<loadVars, evalVars, checks, thrown>>

(***************************************************************************)
(* Evaluation.  The rules engine, the forward pipe and NNCache are not in  *)
(* this file; they are modelled from their contracts.  A position is its   *)
(* set of black stones, its move number and its board size; every position *)
(* of one run has the same side to move, kept with the configuration.      *)
(***************************************************************************)
NoCall == [op |-> "none"]
EmptyCache == [h \in {} |-> 0]
DefaultCfg == [noise |-> FALSE, random_cnt |-> 0, to_move |-> "BLACK", net |-> "plain"]

\* the configurations of a run: cfg_noise, cfg_random_cnt, the side to move
Cfgs == {[DefaultCfg EXCEPT !.to_move = c] : c \in {"BLACK", "WHITE"}}
        \cup {[DefaultCfg EXCEPT !.noise = TRUE, !.to_move = "WHITE"],
              [DefaultCfg EXCEPT !.random_cnt = 1]}

\* a corner stone and its neighbour, and two symmetric images of the pair
BaseBoard == {0, 1}
Image(b, s) == {SymmetryRow(s)[v] : v \in b}
Position(size, b, n) ==
    [boardsize |-> size, board |-> b, movenum |-> n, white |-> {},
     komi |-> 2, ladder_capture |-> {}, ladder_escape |-> {}]

\* state->board.get_hash(): positions with the same stones share a hash
get_hash(state) == state.board
\* state->get_symmetry_hash(sym): the hash of the board with every stone
\* moved from v to symmetry_nn_idx_table[sym][v]
get_symmetry_hash(state, sym) == {TableAt(sym, v) : v \in state.board}
\* state->get_timecontrol().opening_moves(BOARD_SIZE)
opening_moves(size) == 4

\* NNCache::lookup and NNCache::insert (an entry already present is kept; the
\* cache is larger than the number of positions of a run)
lookup(cache, hash) == hash \in DOMAIN cache
insert(cache, hash, result) ==
    IF hash \in DOMAIN cache THEN cache ELSE (hash :> result) @@ cache

(***************************************************************************)
(* Feature planes.  input_data is the flat vector, plane after plane; a    *)
(* write replaces what an earlier write left at the same index.            *)
(***************************************************************************)
INPUT_MOVES == 2
LIBERTY_PLANES == 2
INPUT_CHANNELS == 2 * INPUT_MOVES + 1 + 2 * LIBERTY_PLANES + 4
\* komi is counted in halves of TRAINED_UNIT_KOMI
TRAINED_UNIT_KOMI == 2

\* FastBoard: the colour of a point, the chain of a stone and its liberties
Other(colour) == IF colour = "BLACK" THEN "WHITE" ELSE "BLACK"
StonesOf(board, colour) == IF colour = "BLACK" THEN board.board ELSE board.white
get_square(board, v) ==
    IF v \in board.board THEN "BLACK"
    ELSE IF v \in board.white THEN "WHITE" ELSE "EMPTY"
Neighbours ==
    [v \in Vertices |->
        {w \in Vertices :
            LET dx == (v % BOARD_SIZE) - (w % BOARD_SIZE)
                dy == (v \div BOARD_SIZE) - (w \div BOARD_SIZE)
            IN  dx * dx + dy * dy = 1}]
Adjacent(v) == Neighbours[v]
RECURSIVE Chain(_, _)
Chain(stones, grp) ==
    LET more == {w \in stones \ grp : \E g \in grp : w \in Adjacent(g)}
    IN  IF more = {} THEN grp ELSE Chain(stones, grp \cup more)
LibertiesOf(black, white, grp) ==
    {e \in Vertices \ (black \cup white) : \E g \in grp : e \in Adjacent(g)}
get_liberties(board, v) ==
    Cardinality(LibertiesOf(board.board, board.white,
                            Chain(StonesOf(board, get_square(board, v)), {v})))
\* GameState::is_move_legal on an empty point: not a suicide (ko is left out)
is_move_legal(state, to_move, v) ==
    LET own == StonesOf(state, to_move) \cup {v}
        opp == StonesOf(state, Other(to_move))
        black == IF to_move = "BLACK" THEN own ELSE opp
        white == IF to_move = "BLACK" THEN opp ELSE own
    IN  \/ \E w \in Adjacent(v) : w \notin own \cup opp
        \/ \E w \in opp \cap Adjacent(v) :
              LibertiesOf(black, white, Chain(opp, {w})) = {}
        \/ LibertiesOf(black, white, Chain(own, {v})) # {}
\* state->get_past_board(h): the stones h moves ago (none, in the model)
get_past_board(state, h) ==
    IF h = 0 THEN state ELSE [state EXCEPT !.board = {}, !.white = {}]

\* input_data with value stored at every index of the set
Write(data, indices, value) == [i \in indices |-> value] @@ data
\* the index of entry idx of a plane
At(plane, idx) == plane * NUM_INTERSECTIONS + idx
\* Network::fill_input_plane_pair(board, black, white, symmetry)
fill_input_plane_pair(data, board, black, white, row) ==
    Write(Write(data, {At(black, idx) :
                         idx \in {i \in Vertices : row[i] \in board.board}},
                One),
          {At(white, idx) : idx \in {i \in Vertices : row[i] \in board.white}},
          One)

\* Network::legal_plane(state, legal, symmetry)
legal_plane(data, state, to_move, legal, row) ==
    Write(data,
          {At(legal, idx) :
             idx \in {i \in Vertices :
                        /\ get_square(state, row[i]) = "EMPTY"
                        /\ ~is_move_legal(state, to_move, row[i])}},
          One)

\* Network::fill_liberty_planes(board, planes_black, planes_white, plane_count, symmetry)
LibertyPlane(libs, plane_count) ==
    (IF libs > plane_count THEN plane_count ELSE libs) - 1
fill_liberty_planes(data, board, planes_black, planes_white, plane_count, row) ==
    Write(data,
          {At((IF row[idx] \in board.board
                 THEN planes_black ELSE planes_white)
              + LibertyPlane(get_liberties(board, row[idx]), plane_count),
              idx) :
             idx \in {i \in Vertices : get_square(board, row[i]) # "EMPTY"}},
          One)

\* Network::fill_ladder_planes(state, captures, escapes, symmetry)
fill_ladder_planes(data, state, captures, escapes, row) ==
    Write(Write(data, {At(captures, idx) :
                         idx \in {i \in Vertices :
                                    row[i] \in state.ladder_capture}},
                One),
          {At(escapes, idx) :
             idx \in {i \in Vertices : row[i] \in state.ladder_escape}},
          One)

\* Network::get_normalised_komi(state)
get_normalised_komi(state) ==
    One \div 2 + (state.komi * One) \div (2 * TRAINED_UNIT_KOMI)

\* lines 1057-1065: the history loop, from h on
RECURSIVE FillHistory(_, _, _, _, _, _)
FillHistory(data, state, black_it, white_it, row, h) ==
    IF h >= (IF state.movenum + 1 < INPUT_MOVES THEN state.movenum + 1 ELSE INPUT_MOVES)
      THEN data
      ELSE FillHistory(fill_input_plane_pair(data, get_past_board(state, h),
                                             black_it + h, white_it + h, row),
                       state, black_it, white_it, row, h + 1)

\* black_to_move_it, as a plane index; white_to_move_it is the plane after it
KomiPlanes == 2 * INPUT_MOVES

\* Network::gather_features(state, symmetry) for the side to move, with row
\* the symmetry's row of the table
InputData(state, to_move, row) ==
    LET blacks_move == to_move = "BLACK"
        black_it == IF blacks_move THEN 0 ELSE INPUT_MOVES
        white_it == IF blacks_move THEN INPUT_MOVES ELSE 0
        legal_it == 2 * INPUT_MOVES
        liberties_our == 2 * INPUT_MOVES + 1
        liberties_other == 2 * INPUT_MOVES + 1 + LIBERTY_PLANES
        liberties_black_it == IF blacks_move THEN liberties_our ELSE liberties_other
        liberties_white_it == IF blacks_move THEN liberties_other ELSE liberties_our
        captures_it == 2 * INPUT_MOVES + 1 + 2 * LIBERTY_PLANES
        escapes_it == 2 * INPUT_MOVES + 1 + 2 * LIBERTY_PLANES + 1
        black_to_move_it == KomiPlanes
        white_to_move_it == black_to_move_it + 1
        pos_komi == get_normalised_komi(state)
        neg_komi == One - pos_komi
        black_komi == IF blacks_move THEN pos_komi ELSE neg_komi
        white_komi == IF blacks_move THEN neg_komi ELSE pos_komi
        input_data == [i \in 0 .. (INPUT_CHANNELS * NUM_INTERSECTIONS - 1) |-> 0]
        d1 == FillHistory(input_data, state, black_it, white_it, row, 0)
        d2 == Write(d1, {At(black_to_move_it, idx) : idx \in Vertices}, black_komi)
        d3 == Write(d2, {At(white_to_move_it, idx) : idx \in Vertices}, white_komi)
        d4 == legal_plane(d3, state, to_move, legal_it, row)
        d5 == fill_liberty_planes(d4, state, liberties_black_it, liberties_white_it,
                                  LIBERTY_PLANES, row)
    IN  fill_ladder_planes(d5, state, captures_it, escapes_it, row)

\* the forward pass and the heads, up to softmax and tanh.  The network is a
\* stand-in chosen by net: one that is not symmetric (its outputs depend on the index), and
\* one whose policy output at an index depends on the input at that index only
\* and whose pass output and win-rate do not depend on the orientation.
\* A stone of either colour on the current board counts as 1.
Stone(input, idx) ==
    IF input[At(0, idx)] = One \/ input[At(INPUT_MOVES, idx)] = One THEN 1 ELSE 0
RECURSIVE WeightedStones(_, _)
WeightedStones(input, idx) ==
    IF idx = NUM_INTERSECTIONS THEN 0
    ELSE (idx + 1) * Stone(input, idx) + WeightedStones(input, idx + 1)
RECURSIVE PlaneSum(_, _)
PlaneSum(input, idx) ==
    IF idx = NUM_INTERSECTIONS THEN 0
    ELSE Stone(input, idx) + PlaneSum(input, idx + 1)
Heads(net, input) ==
    IF net = "equivariant"
      THEN [outputs |-> [idx \in 0 .. NUM_INTERSECTIONS |->
                           IF idx = NUM_INTERSECTIONS
                             THEN 8 * (1 + PlaneSum(input, 0))
                             ELSE 8 * (1 + Stone(input, idx)
                                         + 2 * (input[At(KomiPlanes, idx)] \div (One \div 4)))],
            winrate |-> 8 * PlaneSum(input, 0)]
      ELSE [outputs |-> [idx \in 0 .. NUM_INTERSECTIONS |->
                           IF idx = NUM_INTERSECTIONS
                             THEN 8 * (1 + Stone(input, 0) + 2 * Stone(input, 1))
                             ELSE 8 * (1 + idx + NUM_INTERSECTIONS * Stone(input, idx))],
            winrate |-> 8 * WeightedStones(input, 0)]

\* a plausible slip: the output is read through the table, not written through it
UnpermuteRead(policy, outputs, row, idx) ==
    [v \in Vertices |-> outputs[row[v]]]

\* lines 876-879: result.policy[sym_idx] = outputs[idx], idx ascending
RECURSIVE Unpermute(_, _, _, _)
Unpermute(policy, outputs, row, idx) ==
    IF idx = NUM_INTERSECTIONS THEN policy
    ELSE Unpermute([policy EXCEPT ![row[idx]] = outputs[idx]],
                   outputs, row, idx + 1)

\* Network::get_output_internal for the side to move, the stand-in network
\* and the symmetry's row of the table
OutputOf(state, to_move, net, row) ==
    LET out == CHOOSE o \in {Heads(net, input) :
                               input \in {InputData(state, to_move, row)}} : TRUE
    IN  [policy |-> Unpermute(ZeroResult.policy, out.outputs, row, 0),
         policy_pass |-> out.outputs[NUM_INTERSECTIONS],
         winrate |-> out.winrate]

\* the outputs of the positions the runs evaluate, computed once
KnownStates ==
    {Position(BOARD_SIZE, b, n) :
        b \in {{}, BaseBoard, Image(BaseBoard, 1), Image(BaseBoard, 5)},
        n \in {0, 1, 2}}
KnownOutputs ==
    [k \in KnownStates \X {"BLACK", "WHITE"} \X {"plain", "equivariant"}
           \X {SymmetryRow(s) : s \in Symmetries} |->
        OutputOf(k[1], k[2], k[3], k[4])] @@ <<>>

\* Network::gather_features(state, symmetry)
gather_features(state, symmetry) ==
    InputData(state, cfg.to_move, symmetry_nn_idx_table[symmetry + 1])

\* Network::get_output_internal(state, symmetry)
get_output_internal(state, symmetry) ==
    LET k == <<state, cfg.to_move, cfg.net, symmetry_nn_idx_table[symmetry + 1]>>
    IN  IF k \in DOMAIN KnownOutputs THEN KnownOutputs[k]
        ELSE OutputOf(k[1], k[2], k[3], k[4])

\* a plausible slip: the stored policy is read through the inverse permutation
CorrectedPolicyInverse(policy, sym) ==
    [idx \in Vertices |-> policy[CHOOSE v \in Vertices : TableAt(sym, v) = idx]]

\* lines 763-769: corrected_policy[idx] = result.policy[symmetry_nn_idx_table[sym][idx]]
CorrectedPolicy(policy, sym) ==
    [idx \in Vertices |-> policy[TableAt(sym, idx)]]

\* a plausible slip: the symmetric probes are made whatever the regime
InOpeningAlways(state) == TRUE

\* lines 754-755: the condition under which the symmetric hashes are probed
InOpening(state) ==
    /\ ~cfg.noise
    /\ cfg.random_cnt = 0
    /\ state.movenum < opening_moves(BOARD_SIZE) \div 2

Miss == [hit |-> FALSE, how |-> "miss", sym |-> -1, result |-> ZeroResult]

\* lines 756-771: the loop over the symmetries, from sym on
RECURSIVE ProbeSymmetries(_, _, _)
ProbeSymmetries(cache, state, sym) ==
    IF sym = NUM_SYMMETRIES THEN Miss
    ELSE IF sym = IDENTITY_SYMMETRY THEN ProbeSymmetries(cache, state, sym + 1)
    ELSE IF lookup(cache, get_symmetry_hash(state, sym))
           THEN LET result == cache[get_symmetry_hash(state, sym)]
                IN  [hit |-> TRUE, how |-> "symmetric", sym |-> sym,
                     result |-> [result EXCEPT
                                   !.policy = CorrectedPolicy(result.policy, sym)]]
    ELSE ProbeSymmetries(cache, state, sym + 1)

\* Network::probe_cache(state, result)
probe_cache(cache, state) ==
    IF lookup(cache, get_hash(state))
      THEN [hit |-> TRUE, how |-> "exact", sym |-> IDENTITY_SYMMETRY,
            result |-> cache[get_hash(state)]]
    ELSE IF InOpening(state) THEN ProbeSymmetries(cache, state, 0)
    ELSE Miss

\* a plausible slip: the sum of the eight results is not divided
AccumulateUndivided(result, tmpresult) ==
    [policy |-> [idx \in Vertices |-> result.policy[idx] + tmpresult.policy[idx]],
     policy_pass |-> result.policy_pass + tmpresult.policy_pass,
     winrate |-> result.winrate + tmpresult.winrate]

\* lines 797-803: one round of the AVERAGE loop
Accumulate(result, tmpresult) ==
    [policy |-> [idx \in Vertices |->
                    result.policy[idx] + tmpresult.policy[idx] \div NUM_SYMMETRIES],
     policy_pass |-> result.policy_pass + tmpresult.policy_pass \div NUM_SYMMETRIES,
     winrate |-> result.winrate + tmpresult.winrate \div NUM_SYMMETRIES]

\* lines 796-804: the AVERAGE loop, from sym on
RECURSIVE AverageFrom(_, _, _)
AverageFrom(result, state, sym) ==
    IF sym = NUM_SYMMETRIES THEN result
    ELSE AverageFrom(Accumulate(result, get_output_internal(state, sym)),
                     state, sym + 1)

\* lines 792-820 without the self-check: the result of the chosen ensemble
Evaluate(state, ensemble, sym) ==
    IF ensemble = "AVERAGE" THEN AverageFrom(ZeroResult, state, 0)
    ELSE get_output_internal(state, sym)

\* a plausible slip: the complement is taken for either side to move
ValueHeadAnySide(result) ==
    IF m_value_head_not_stm
      THEN [result EXCEPT !.winrate = One - result.winrate]
      ELSE result

\* lines 822-827: v2 format returns black value, not stm
ValueHead(result) ==
    IF m_value_head_not_stm /\ cfg.to_move = "WHITE"
      THEN [result EXCEPT !.winrate = One - result.winrate]
      ELSE result

\* a plausible slip: the result is returned without being stored
CacheAfterNoInsert(cache, state, result) == cache

\* line 830: m_nncache.insert(state->board.get_hash(), result)
CacheAfter(cache, state, result) == insert(cache, get_hash(state), result)

\* the pipes behind the entries after that insert, pipe having run the pass
ProducedAfter(state, pipe) == insert(produced_by, get_hash(state), pipe)

\* the calls of a run, <<state, <<ensemble, symmetry>>, skip_cache>>: the base
\* position early and late in the game, two symmetric images of it early, and
\* a position on a board of another size
Calls ==
    ({Position(BOARD_SIZE, BaseBoard, 1), Position(BOARD_SIZE, BaseBoard, 2)}
        \X {<<"DIRECT", 0>>, <<"AVERAGE", -1>>} \X BOOLEAN)
    \cup ({Position(BOARD_SIZE, Image(BaseBoard, 1), 1)}
        \X {<<"DIRECT", 5>>, <<"AVERAGE", -1>>} \X BOOLEAN)
    \cup ({Position(BOARD_SIZE, Image(BaseBoard, 5), 1)}
        \X {<<"RANDOM_SYMMETRY", -1>>} \X BOOLEAN)
    \cup {<<Position(BOARD_SIZE + 1, BaseBoard, 1), <<"DIRECT", 0>>, FALSE>>}

\* the calls of a run on a build with a reference pipe: the base position
\* in every mode, and an image of it past the opening
CheckedCalls ==
    ({Position(BOARD_SIZE, BaseBoard, 1)}
        \X {<<"RANDOM_SYMMETRY", -1>>, <<"DIRECT", 5>>, <<"AVERAGE", -1>>}
        \X {FALSE})
    \cup {<<Position(BOARD_SIZE, BaseBoard, 1), <<"RANDOM_SYMMETRY", -1>>, TRUE>>,
          <<Position(BOARD_SIZE, Image(BaseBoard, 1), 2), <<"RANDOM_SYMMETRY", -1>>,
            FALSE>>}

\* a plausible slip: the reference pass of a sampled call is run in every mode
PassesAlwaysChecked(ensemble, sym, sampled) ==
    <<<<pipes.m_forward, sym>>, <<pipes.m_forward_cpu, sym>>>>

\* lines 792-820: the forward passes of a call that misses the cache, each
\* <<the pipe, the symmetry>>, in the order they are run (lines 844-851
\* choose the pipe)
Passes(ensemble, sym, sampled) ==
    IF ensemble = "AVERAGE"
      THEN [i \in 1 .. NUM_SYMMETRIES |-> <<pipes.m_forward, i - 1>>]
    ELSE IF ensemble = "DIRECT" \/ ~sampled
      THEN <<<<pipes.m_forward, sym>>>>
    ELSE <<<<pipes.m_forward, sym>>, <<pipes.m_forward_cpu, sym>>>>

\* a plausible slip: the board size is not looked at
BoardSizeAny(state) == TRUE

\* line 781, negated: state->board.get_boardsize() == BOARD_SIZE
BoardSizeMatches(state) == state.boardsize = BOARD_SIZE

\* a plausible slip: the cache is read whatever skip_cache says
ProbeIgnoringSkip(skip, cache, state) == probe_cache(cache, state)

\* lines 785-790: the cache is read unless the caller set skip_cache
Probe(skip, cache, state) == IF skip THEN Miss ELSE probe_cache(cache, state)

\* what the call leaves behind when it returns result (or throws)
Returned(state, req, skip, how, sym, result, passes) ==
    [op |-> "get_output", state |-> state, ensemble |-> req[1],
     symmetry |-> req[2], skip_cache |-> skip, how |-> how, sym |-> sym,
     result |-> result, passes |-> passes]

\* Network::get_output(state, ensemble, symmetry, skip_cache), for the calls
\* of a run.  The pass on the reference pipe gives the primary pipe's result
\* or one that diverges from it.
GetOutputOf(calls) ==
    /\ pc = "done"
    /\ ~thrown
    /\ \E c \in calls :
         LET state == c[1]
             req == c[2]
             skip == c[3]
             probe == Probe(skip, m_nncache, state)
         IN  IF ~BoardSizeMatches(state)
               THEN /\ call' = Returned(state, req, skip, "wrong_size", -1,
                                        ZeroResult, <<>>)
                    /\ UNCHANGED <<m_nncache, produced_by, checkVars>>
             ELSE IF probe.hit
               THEN /\ call' = Returned(state, req, skip, probe.how, probe.sym,
                                        probe.result, <<>>)
                    /\ UNCHANGED <<m_nncache, produced_by, checkVars>>
             ELSE \E sym \in (IF req[1] = "RANDOM_SYMMETRY" THEN Symmetries
                              ELSE {req[2]}),
                     sampled \in (IF req[1] = "RANDOM_SYMMETRY"
                                     /\ pipes.m_forward_cpu # "null"
                                     /\ Len(checks) < MaxSampled
                                  THEN BOOLEAN ELSE {FALSE}) :
                    \E raw \in {Evaluate(state, req[1], sym)} :
                    \E result_ref \in (IF sampled THEN RefResults(raw) ELSE {raw}) :
                    LET fail == selfcheck_fail(raw, result_ref)
                        r == RecordSelfcheck(m_selfcheck_fails, fail)
                        result == ValueHead(raw)
                        passes == Passes(req[1], sym, sampled)
                    IN  IF sampled /\ r[2]
                          THEN /\ m_selfcheck_fails' = r[1]
                               /\ checks' = Append(checks, fail)
                               /\ thrown' = TRUE
                               /\ call' = Returned(state, req, skip, "thrown", sym,
                                                   ZeroResult, passes)
                               /\ UNCHANGED <<m_nncache, produced_by>>
                          ELSE /\ IF sampled
                                    THEN /\ m_selfcheck_fails' = r[1]
                                         /\ checks' = Append(checks, fail)
                                    ELSE UNCHANGED <<m_selfcheck_fails, checks>>
                               /\ UNCHANGED thrown
                               /\ m_nncache' = CacheAfter(m_nncache, state, result)
                               /\ produced_by' = ProducedAfter(state, pipes.m_forward)
                               /\ call' = Returned(state, req, skip, "evaluated",
                                                   sym, result, passes)
    /\ UNCHANGED <<loadVars, cfg, workers>>

\* get_output on a build without a reference pipe
GetOutput == GetOutputOf(Calls)

\* get_output on a build that may have a reference pipe
GetOutputChecked == GetOutputOf(CheckedCalls)

(***************************************************************************)
(* Feature construction and a single forward pass, called on their own.    *)
(***************************************************************************)
\* positions that show every kind of plane: a black and a white stone in
\* atari, a point where white may not play, ladder points, and a plain one
FeatureStates ==
    {[Position(BOARD_SIZE, {0}, 1) EXCEPT !.white = {1}, !.komi = 1],
     [Position(BOARD_SIZE, {1}, 1) EXCEPT !.white = {0}, !.komi = 1],
     [Position(BOARD_SIZE, {1, BOARD_SIZE}, 2) EXCEPT !.komi = 1],
     [Position(BOARD_SIZE, {2}, 0) EXCEPT !.komi = 0,
                                          !.ladder_capture = {1},
                                          !.ladder_escape = {BOARD_SIZE}],
     Position(BOARD_SIZE, BaseBoard, 1)}

\* the networks and the sides to move of these runs
FeatureCfgs ==
    {[DefaultCfg EXCEPT !.to_move = c, !.net = n] :
        c \in {"BLACK", "WHITE"}, n \in {"plain", "equivariant"}}

\* Network::gather_features(state, symmetry), called on its own
GatherFeatures ==
    /\ pc = "done"
    /\ \E state \in FeatureStates, symmetry \in Symmetries :
         call' = [op |-> "gather_features", state |-> state, symmetry |-> symmetry,
                  input_data |-> gather_features(state, symmetry)]
    /\ UNCHANGED <<loadVars, cfg, m_nncache, produced_by, checkVars>>

\* Network::get_output_internal(state, symmetry), called on its own
GetOutputInternal ==
    /\ pc = "done"
    /\ \E state \in FeatureStates, symmetry \in Symmetries :
         call' = [op |-> "get_output_internal", state |-> state,
                  symmetry |-> symmetry,
                  result |-> get_output_internal(state, symmetry)]
    /\ UNCHANGED <<loadVars, cfg, m_nncache, produced_by, checkVars>>

(***************************************************************************)
(* The precision benchmark at the end of Network::initialize.  A score is  *)
(* a whole number of evaluations per second; score_fp32 * 1.05f is taken   *)
(* exactly, as 105 * score_fp32 against 100 * score_fp16.                  *)
(***************************************************************************)
\* what benchmark_time can return: 21 is exactly 5% above 20
Scores == {20, 21, 22}

\* the position benchmark_time evaluates: init_game(BOARD_SIZE, komi)
BenchmarkState == Position(BOARD_SIZE, {}, 0)


\* the self-checks that the get_output calls of the two benchmarks draw, each
\* with whether the two pipes diverge: none, one, or three divergent ones
BenchChecks == {<<>>, <<FALSE>>, <<TRUE>>, <<TRUE, TRUE, TRUE>>}

\* compare_net_outputs for each check in turn, until one throws:
\* <<the window, thrown, the outcomes recorded>>
RECURSIVE RecordAll(_, _, _, _)
RecordAll(w, raw, divs, done) ==
    IF divs = <<>> THEN <<w, FALSE, done>>
    ELSE LET fail == selfcheck_fail(raw, IF Head(divs) THEN Diverged(raw) ELSE raw)
             r == RecordSelfcheck(w, fail)
         IN  IF r[2] THEN <<r[1], TRUE, Append(done, fail)>>
             ELSE RecordAll(r[1], raw, Tail(divs), Append(done, fail))

\* a plausible slip: half precision is kept only when strictly more than 5% faster
KeepSingleOnTie(score_fp32, score_fp16) == 105 * score_fp32 >= 100 * score_fp16

\* if (score_fp32 * 1.05f > score_fp16): swap back to single precision
KeepSingle(score_fp32, score_fp16) == 105 * score_fp32 > 100 * score_fp16

\* lines 566-579: benchmark both pipes and keep one; fp16net, a local, is
\* destroyed with whatever it holds when initialize returns
SelectPrecision ==
    /\ pc = "benchmark"
    /\ IF pipes.fp16net = "null"
         THEN /\ pc' = "done"
              /\ UNCHANGED <<pipes, evalVars, checkVars>>
         ELSE LET raws == [s \in Symmetries |->
                             Evaluate(BenchmarkState, "RANDOM_SYMMETRY", s)]
              IN
              \E score_fp32 \in Scores, score_fp16 \in Scores, sym \in Symmetries,
                 divs \in (IF pipes.m_forward_cpu # "null" THEN BenchChecks
                           ELSE {<<>>}) :
                LET raw == raws[sym]
                    r == RecordAll(m_selfcheck_fails, raw, divs, <<>>)
                    single == pipes.m_forward
                    half == pipes.fp16net
                IN  /\ m_selfcheck_fails' = r[1]
                    /\ checks' = checks \o r[3]
                    /\ thrown' = r[2]
                    /\ UNCHANGED workers
                    /\ m_nncache' = CacheAfter(m_nncache, BenchmarkState,
                                               ValueHead(raw))
                    \* the first benchmark runs on the single-precision pipe
                    /\ produced_by' = ProducedAfter(BenchmarkState, single)
                    /\ IF r[2]
                         THEN \* the exception leaves initialize
                              /\ pc' = "thrown"
                              /\ UNCHANGED pipes
                         ELSE /\ pc' = "done"
                              /\ pipes' =
                                   [pipes EXCEPT
                                      !.m_forward =
                                          IF KeepSingle(score_fp32, score_fp16)
                                            THEN single ELSE half,
                                      !.fp16net = "null",
                                      !.log = pipes.log
                                          \o <<<<single, "benchmark_time", score_fp32>>,
                                               <<half, "benchmark_time", score_fp16>>>>]
                    /\ UNCHANGED <<cfg, call>>
    /\ UNCHANGED <<asserts, symmetry_nn_idx_table, wtfile, m_value_head_not_stm,
                   linecount, channels, residual_blocks, weights, report, ret>>

(***************************************************************************)
(* Specifications.                                                         *)
(***************************************************************************)
EvalIdle ==
    /\ cfg = DefaultCfg
    /\ m_nncache = EmptyCache
    /\ produced_by = EmptyCache
    /\ call = NoCall
CheckIdle ==
    /\ m_selfcheck_fails = <<>>
    /\ checks = <<>>
    /\ thrown = FALSE
    /\ workers = IdleWorkers

\* Network::initialize, from its first statement
Init ==
    /\ pc = "symmetry"
    /\ asserts \in BOOLEAN
    /\ symmetry_nn_idx_table = <<>>
    /\ wtfile = NoFile
    \* the member has no initializer in this file: any value
    /\ m_value_head_not_stm \in BOOLEAN
    /\ linecount = 0
    /\ channels = 0
    /\ residual_blocks = U64(0)
    /\ weights = EmptyWeights
    /\ report = NoReport
    /\ ret = <<>>
    /\ pipes = NoPipes
    /\ EvalIdle
    /\ CheckIdle

Next ==
    \/ BuildSymmetryRow
    \/ OpenFile
    \/ ReadVersion
    \/ CountLines
    \/ ParseLine
    \/ ReturnLoaded
    \/ CheckLoaded
    \/ Transform
    \/ InitializePipes
    \/ SelectPrecision

Spec == Init /\ [][Next]_vars

\* the network as Network::initialize leaves it for a current-version file
\* without residual blocks, on the CPU pipe
RECURSIVE StoreLines(_, _, _)
StoreLines(w, lc, n) == IF lc = n THEN w ELSE StoreLines(Store(w, U64(0), lc), lc + 1, n)
Initialized ==
    /\ pc = "done"
    /\ asserts = FALSE
    /\ symmetry_nn_idx_table = [s \in 1 .. NUM_SYMMETRIES |-> SymmetryRow(s - 1)]
    /\ wtfile = [open |-> "ok", empty |-> FALSE,
                 version |-> [fail |-> FALSE, value |-> 502],
                 nlines |-> 22, tokens |-> 1, badline |-> -1, badkind |-> "none"]
    /\ linecount = 22
    /\ channels = 1
    /\ residual_blocks = U64(0)
    /\ weights = StoreLines(EmptyWeights, 0, 22)
    /\ report = NoReport
    /\ ret = <<1, 0>>
    /\ pipes = [m_forward |-> "CPUPipe", fp16net |-> "null", m_forward_cpu |-> "null",
                log |-> <<<<"winograd_transform_f", 0>>, <<"fuse_batchnorm", 1>>,
                          <<"fuse_bias", "val">>, <<"fuse_bias", "pol">>>>
                        \o AllPipeCalls(<<"CPUPipe">>)]

\* compare_net_outputs fed one self-check after the other
InitCheck ==
    /\ Initialized
    /\ m_value_head_not_stm = FALSE
    /\ EvalIdle
    /\ CheckIdle
NextCheck == CompareNetOutputs
SpecCheck == InitCheck /\ [][NextCheck]_vars

\* compare_net_outputs called by the worker threads concurrently
InitThreads ==
    /\ Initialized
    /\ m_value_head_not_stm = FALSE
    /\ EvalIdle
    /\ CheckIdle
NextThreads ==
    \E w \in Workers :
        Compare(w) \/ Lock(w) \/ EmplaceBack(w) \/ CountFailures(w) \/ PopFront(w)
SpecThreads == InitThreads /\ [][NextThreads]_vars

\* relative_difference applied to pairs of values
InitDiff ==
    /\ Initialized
    /\ m_value_head_not_stm = FALSE
    /\ EvalIdle
    /\ CheckIdle
NextDiff == RelativeDifference
SpecDiff == InitDiff /\ [][NextDiff]_vars

\* the builds whose precision is fixed at compile time or by the user
CheckedBuilds == {b \in Builds : b.precision # "AUTO"}

\* get_output on an initialized network of any of these builds
InitSelfcheck ==
    /\ pc = "done"
    /\ asserts = FALSE
    /\ symmetry_nn_idx_table = [s \in 1 .. NUM_SYMMETRIES |-> SymmetryRow(s - 1)]
    /\ wtfile = [open |-> "ok", empty |-> FALSE,
                 version |-> [fail |-> FALSE, value |-> 502],
                 nlines |-> 22, tokens |-> 1, badline |-> -1, badkind |-> "none"]
    /\ linecount = 22
    /\ channels = 1
    /\ residual_blocks = U64(0)
    /\ weights = StoreLines(EmptyWeights, 0, 22)
    /\ report = NoReport
    /\ ret = <<1, 0>>
    /\ m_value_head_not_stm = FALSE
    /\ \E b \in CheckedBuilds :
         pipes = [m_forward |-> MakePipes(b).m_forward, fp16net |-> "null",
                  m_forward_cpu |-> MakePipes(b).m_forward_cpu,
                  log |-> <<<<"winograd_transform_f", 0>>, <<"fuse_batchnorm", 1>>,
                            <<"fuse_bias", "val">>, <<"fuse_bias", "pol">>>>
                          \o AllPipeCalls(ToInit(MakePipes(b)))]
    /\ cfg = [DefaultCfg EXCEPT !.net = "equivariant"]
    /\ m_nncache = EmptyCache
    /\ produced_by = EmptyCache
    /\ call = NoCall
    /\ CheckIdle
NextSelfcheck == GetOutputChecked
SpecSelfcheck == InitSelfcheck /\ [][NextSelfcheck]_vars

\* gather_features and get_output_internal on an initialized network
InitFeatures ==
    /\ Initialized
    /\ m_value_head_not_stm = FALSE
    /\ cfg \in FeatureCfgs
    /\ m_nncache = EmptyCache
    /\ produced_by = EmptyCache
    /\ call = NoCall
    /\ CheckIdle
NextFeatures == GatherFeatures \/ GetOutputInternal
SpecFeatures == InitFeatures /\ [][NextFeatures]_vars

\* get_output called again and again on the loaded network
InitEval ==
    /\ Initialized
    /\ m_value_head_not_stm = FALSE
    /\ cfg \in Cfgs
    /\ m_nncache = EmptyCache
    /\ produced_by = EmptyCache
    /\ call = NoCall
    /\ CheckIdle
NextEval == GetOutput
SpecEval == InitEval /\ [][NextEval]_vars

\* the calls of a run that follows the benchmark: the benchmark's position
\* and another one, with and without skip_cache
BenchCalls ==
    ({BenchmarkState, Position(BOARD_SIZE, BaseBoard, 1)}
        \X {<<"DIRECT", 0>>} \X BOOLEAN)
    \cup {<<BenchmarkState, <<"RANDOM_SYMMETRY", -1>>, TRUE>>}

\* get_output once Network::initialize has returned
GetOutputStarted == GetOutputOf(BenchCalls)

\* the end of Network::initialize, from the benchmark on, on every build, and
\* the get_output calls that follow
InitBenchmark ==
    /\ pc = "benchmark"
    /\ asserts = FALSE
    /\ symmetry_nn_idx_table = [s \in 1 .. NUM_SYMMETRIES |-> SymmetryRow(s - 1)]
    /\ wtfile = [open |-> "ok", empty |-> FALSE,
                 version |-> [fail |-> FALSE, value |-> 502],
                 nlines |-> 22, tokens |-> 1, badline |-> -1, badkind |-> "none"]
    /\ linecount = 22
    /\ channels = 1
    /\ residual_blocks = U64(0)
    /\ weights = StoreLines(EmptyWeights, 0, 22)
    /\ report = NoReport
    /\ ret = <<1, 0>>
    /\ m_value_head_not_stm = FALSE
    /\ \E b \in Builds :
         pipes = [m_forward |-> MakePipes(b).m_forward,
                  fp16net |-> MakePipes(b).fp16net,
                  m_forward_cpu |-> MakePipes(b).m_forward_cpu,
                  log |-> <<<<"winograd_transform_f", 0>>, <<"fuse_batchnorm", 1>>,
                            <<"fuse_bias", "val">>, <<"fuse_bias", "pol">>>>
                          \o AllPipeCalls(ToInit(MakePipes(b)))]
    /\ cfg = [DefaultCfg EXCEPT !.net = "equivariant"]
    /\ m_nncache = EmptyCache
    /\ produced_by = EmptyCache
    /\ call = NoCall
    /\ CheckIdle
NextBenchmark == SelectPrecision \/ GetOutputStarted
SpecBenchmark == InitBenchmark /\ [][NextBenchmark]_vars

\* get_output for either value of m_value_head_not_stm.  The loader leaves the
\* flag false for every file it accepts, so the value true is a hypothesis
\* about the member and not a state that Spec reaches.
InitValueHead ==
    /\ Initialized
    /\ m_value_head_not_stm \in BOOLEAN
    /\ cfg \in Cfgs
    /\ m_nncache = EmptyCache
    /\ produced_by = EmptyCache
    /\ call = NoCall
    /\ CheckIdle
NextValueHead == GetOutput
SpecValueHead == InitValueHead /\ [][NextValueHead]_vars


(***************************************************************************)
(* Properties of the loader and of Network::initialize.                    *)
(***************************************************************************)
\* the version line has been read and acted upon
VersionDone == pc \notin {"symmetry", "open", "version"} /\ wtfile.open = "ok"
                 /\ ~wtfile.empty

\* C1: a file of the current version (502) and a file of the legacy version
\* (2) both get past the version check; the legacy file leaves
\* m_value_head_not_stm true, the current one leaves it false.
C1_LegacyVersionAccepted ==
    (VersionDone /\ ~wtfile.version.fail /\ wtfile.version.value \in {502, 2})
        => /\ report.kind # "version"
           /\ m_value_head_not_stm = (wtfile.version.value = 2)

\* the inputs C2 lists
WrongVersion(f) == f.version.fail \/ f.version.value # 502
NotDivisible(f) == (f.nlines - 22) % 16 # 0
FailingFile(f) ==
    \/ f.open \in {"noopen", "readerr"}
    \/ f.open = "ok" /\ (f.empty \/ WrongVersion(f) \/ NotDivisible(f)
                           \/ f.badkind = "token")

\* C2: for an unopenable file, a read error, an empty stream, a wrong
\* version, a line count that is not 22 + 16 N, or a malformed float token,
\* the loader returns channels = 0 and Network::initialize exits without
\* transforming a tensor or making a pipe; for a wrong version or a bad line
\* count every tensor container is still empty when the failure is returned.
C2_FailedLoadIsAbandoned ==
    FailingFile(wtfile) =>
        /\ pc \in {"version", "count", "parse", "returned", "exited"}
        /\ pipes = NoPipes
        /\ (pc \in {"returned", "exited"} => ret = <<0, 0>>)
        /\ (wtfile.open = "ok" /\ ~wtfile.empty
              /\ (WrongVersion(wtfile) \/ NotDivisible(wtfile))
              => weights = EmptyWeights)

\* a file with a malformed token on a late line has been abandoned half-read
C2_Witness ==
    /\ pc = "exited"
    /\ wtfile.badkind = "token"
    /\ wtfile.badline > 6
    /\ weights # EmptyWeights
    /\ ret = <<0, 0>>

\* C3: the second pass rejects a file whose data line i (0-based) is not a
\* float sequence, and the line number it reports is i + 2, the 1-indexed
\* number of that line in the file.
C3_ParseErrorLine ==
    /\ report.kind = "parse"
         => /\ wtfile.badkind = "token"
            /\ report.line = wtfile.badline + 2
            /\ ret = <<0, 0>>
    /\ (wtfile.badkind = "token" /\ ~WrongVersion(wtfile) /\ ~NotDivisible(wtfile)
          /\ pc \in {"returned", "exited", "transform", "pipes", "benchmark", "done",
                    "thrown", "crashed"})
         => report.kind = "parse"

\* the malformed line is the last line of a file with a residual block
C3_Witness ==
    /\ report.kind = "parse"
    /\ wtfile.nlines = 38
    /\ wtfile.badline = 37
    /\ report.line = 39

\* C4: a file of the current version with 22 + 16 N data lines and a
\* non-zero channel count, one of whose data lines has the wrong length, is
\* never loaded: the load fails and reports that line.
C4_WrongLengthRejected ==
    (/\ wtfile.badkind = "length"
     /\ wtfile.open = "ok" /\ ~wtfile.empty /\ ~WrongVersion(wtfile)
     /\ ~NotDivisible(wtfile) /\ wtfile.nlines >= 22 /\ wtfile.tokens > 0
     /\ pc \in {"returned", "exited", "transform", "pipes", "benchmark", "done"})
        => /\ ret = <<0, 0>>
           /\ report.line = wtfile.badline + 2

\* C5: when Network::initialize has built the symmetry table, every row is a
\* bijection of the vertices, row 0 is the identity, and entry [s][v] is the
\* vertex reached from (v mod BOARD_SIZE, v div BOARD_SIZE) by the transpose
\* if bit 2 of s is set, then the horizontal mirror if bit 1 is set, then the
\* vertical mirror if bit 0 is set; the table is not written again.
C5_SymmetryTable ==
    /\ [](pc = "open" =>
            /\ Len(symmetry_nn_idx_table) = NUM_SYMMETRIES
            /\ \A s \in Symmetries :
                  /\ \A v \in Vertices : TableAt(s, v) \in Vertices
                  /\ \A v, w \in Vertices : TableAt(s, v) = TableAt(s, w) => v = w
                  /\ \A w \in Vertices : \E v \in Vertices : TableAt(s, v) = w
            /\ \A v \in Vertices : TableAt(0, v) = v
            /\ \A s \in Symmetries, v \in Vertices :
                  LET x == v % BOARD_SIZE
                      y == v \div BOARD_SIZE
                      xt == IF s \in {4, 5, 6, 7} THEN y ELSE x
                      yt == IF s \in {4, 5, 6, 7} THEN x ELSE y
                      xm == IF s \in {2, 3, 6, 7} THEN BOARD_SIZE - 1 - xt ELSE xt
                      ym == IF s \in {1, 3, 5, 7} THEN BOARD_SIZE - 1 - yt ELSE yt
                  IN  TableAt(s, v) = ym * BOARD_SIZE + xm)
    /\ [][pc # "symmetry" => symmetry_nn_idx_table' = symmetry_nn_idx_table]_vars

\* the table is built and its rotations are not involutions
C5_Witness ==
    /\ pc = "open"
    /\ Len(symmetry_nn_idx_table) = NUM_SYMMETRIES
    /\ TableAt(5, TableAt(5, 1)) # 1
    /\ TableAt(6, 1) # TableAt(5, 1)


(***************************************************************************)
(* Properties of the self-check.                                           *)
(***************************************************************************)
\* the failures among the most recent 10 checks up to and including check k
RecentFails(k) ==
    Cardinality({i \in 1 .. k : i > k - 10 /\ checks[i]})

\* C9: starting from an empty window, the error is raised at the first check
\* after which at least 3 of the most recent 10 checks are failures: at that
\* check, not before it and not later.
C9_SelfcheckThreshold ==
    LET n == Len(checks)
    IN  /\ thrown => /\ n >= 1
                     /\ RecentFails(n) >= 3
                     /\ \A k \in 1 .. (n - 1) : RecentFails(k) <= 2
        /\ ~thrown => \A k \in 1 .. n : RecentFails(k) <= 2

\* thrown at the twelfth check, after an early failure has left the window
C9_Witness ==
    /\ thrown
    /\ Len(checks) = 12
    /\ checks[1]
    /\ Cardinality({i \in 1 .. 12 : checks[i]}) = 4

(***************************************************************************)
(* Properties of get_output and of the result cache.                       *)
(***************************************************************************)
RECURSIVE SumOver(_, _)
SumOver(f, S) ==
    IF S = {} THEN 0
    ELSE LET x == CHOOSE y \in S : TRUE
         IN  f[x] + SumOver(f, S \ {x})

\* the non-identity symmetries whose hash of the position is in the cache
SymmetricHits(cache, state) ==
    {s \in Symmetries \ {IDENTITY_SYMMETRY} :
        get_symmetry_hash(state, s) \in DOMAIN cache}
LowestOf(S) == CHOOSE s \in S : \A t \in S : s <= t

\* C6: a call that probes the cache inside the opening window, for a position
\* whose own hash is absent while some symmetric hash is present, returns the
\* entry stored under the lowest symmetry s that hits, with the policy
\* P'[v] = P[table[s][v]] and the pass probability and win-rate as stored.
C6_SymmetricHit ==
    [][(/\ call'.op = "get_output"
        /\ call'.state.boardsize = BOARD_SIZE
        /\ ~call'.skip_cache
        /\ ~cfg.noise /\ cfg.random_cnt = 0 /\ call'.state.movenum = 1
        /\ call'.state.board \notin DOMAIN m_nncache
        /\ SymmetricHits(m_nncache, call'.state) # {})
          => LET s == LowestOf(SymmetricHits(m_nncache, call'.state))
                 stored == m_nncache[get_symmetry_hash(call'.state, s)]
             IN  /\ call'.how = "symmetric"
                 /\ call'.sym = s
                 /\ call'.result.policy
                      = [v \in Vertices |-> stored.policy[FullTable[s][v]]]
                 /\ call'.result.policy_pass = stored.policy_pass
                 /\ call'.result.winrate = stored.winrate
                 /\ m_nncache' = m_nncache]_vars

\* a hit through a symmetry that is not its own inverse, a second symmetric
\* hash being present as well
C6_Witness ==
    /\ call.op = "get_output"
    /\ call.how = "symmetric"
    /\ call.sym = 6
    /\ call.state.board \notin DOMAIN m_nncache
    /\ Cardinality(SymmetricHits(m_nncache, call.state)) = 2

\* C7 as stated: every call that returns a result for a correctly sized board
\* leaves an entry under the position's own hash.
C7_AlwaysCached ==
    (call.op = "get_output" /\ call.how \in {"exact", "symmetric", "evaluated"})
        => get_hash(call.state) \in DOMAIN m_nncache

\* C7, amended: a call that evaluates the network leaves an entry under the
\* position's own hash (its own result, unless skip_cache found one there);
\* a call answered from the cache leaves the cache as it was, so after a hit
\* through a symmetric hash the position's own hash is still absent.
C7_EvaluationsCached ==
    call.op = "get_output" =>
        /\ call.how = "evaluated" =>
              /\ get_hash(call.state) \in DOMAIN m_nncache
              /\ ~call.skip_cache => m_nncache[get_hash(call.state)] = call.result
        /\ call.how = "exact" =>
              /\ get_hash(call.state) \in DOMAIN m_nncache
              /\ m_nncache[get_hash(call.state)] = call.result
        /\ call.how = "symmetric" => get_hash(call.state) \notin DOMAIN m_nncache

\* a result returned from a symmetric hit, the position itself not cached
C7_Witness ==
    /\ call.op = "get_output"
    /\ call.how = "symmetric"
    /\ call.state.board = BaseBoard
    /\ get_hash(call.state) \notin DOMAIN m_nncache
    /\ m_nncache # EmptyCache

\* C8: an AVERAGE call that evaluates the network (a miss, or skip_cache)
\* returns the mean over the symmetries 0..7 of the results of
\* get_output_internal: 8 times each returned value is the sum of the eight.
C8_AverageIsMean ==
    (call.op = "get_output" /\ call.how = "evaluated" /\ call.ensemble = "AVERAGE")
        => LET each == [s \in Symmetries |-> get_output_internal(call.state, s)]
           IN  /\ NUM_SYMMETRIES * call.result.winrate
                    = SumOver([s \in Symmetries |-> each[s].winrate], Symmetries)
               /\ NUM_SYMMETRIES * call.result.policy_pass
                    = SumOver([s \in Symmetries |-> each[s].policy_pass], Symmetries)
               /\ \A v \in Vertices :
                     NUM_SYMMETRIES * call.result.policy[v]
                       = SumOver([s \in Symmetries |-> each[s].policy[v]], Symmetries)

\* an average taken with skip_cache set, over an entry of another ensemble
C8_Witness ==
    /\ call.op = "get_output"
    /\ call.how = "evaluated"
    /\ call.ensemble = "AVERAGE"
    /\ call.skip_cache
    /\ get_hash(call.state) \in DOMAIN m_nncache
    /\ m_nncache[get_hash(call.state)] # call.result
    /\ call.result.winrate > 0

\* the win-rate get_output makes of the ensemble's win-rate raw
OncePerColour(raw) ==
    IF m_value_head_not_stm /\ cfg.to_move = "WHITE" THEN One - raw ELSE raw
\* C10: an evaluated call returns 1 - raw when the flag is set and White is to
\* move and raw otherwise, whatever the flag when Black is to move; a call
\* answered from the cache returns the stored win-rate as it is; and the cache
\* changes only by storing the result an evaluating call returns, so every
\* entry holds a win-rate that went through the complement step once.
C10_ValueHeadOrientation ==
    /\ [](/\ (call.op = "get_output" /\ call.how = "evaluated")
               => call.result.winrate
                    = OncePerColour(Evaluate(call.state, call.ensemble,
                                             call.sym).winrate)
          /\ (call.op = "get_output" /\ call.how = "exact")
               => call.result.winrate = m_nncache[get_hash(call.state)].winrate
          /\ (call.op = "get_output" /\ call.how = "symmetric")
               => call.result.winrate
                    = m_nncache[get_symmetry_hash(call.state, call.sym)].winrate)
    /\ [][\A h \in DOMAIN m_nncache' :
            \/ h \in DOMAIN m_nncache /\ m_nncache'[h] = m_nncache[h]
            \/ /\ h \notin DOMAIN m_nncache
               /\ call'.how = "evaluated"
               /\ h = get_hash(call'.state)
               /\ m_nncache'[h] = call'.result]_vars


\* a complemented win-rate returned from the cache, flag set and White to move
C10_Witness ==
    /\ m_value_head_not_stm
    /\ cfg.to_move = "WHITE"
    /\ call.op = "get_output"
    /\ call.how = "exact"
    /\ call.result.winrate > One \div 2

(***************************************************************************)
(* Properties of the pipes that Network::initialize sets up.               *)
(***************************************************************************)
\* the pipe received the call named op
PipeGot(p, op) ==
    \E i \in 1 .. Len(pipes.log) :
        Len(pipes.log[i]) = 3 /\ pipes.log[i][1] = p /\ pipes.log[i][2] = op
\* both precisions were set up: automatic precision mode
AutoPrecision == PipeGot("OpenCL_half", "initialize") /\ PipeGot("OpenCL_float", "initialize")
\* the two throughputs measured, single precision first
Measured ==
    LET n == Len(pipes.log)
    IN  <<pipes.log[n - 1][3], pipes.log[n][3]>>

\* C11: when initialize returns in automatic precision mode, both pipes were
\* benchmarked, the primary pipe is the half-precision one if and only if its
\* throughput is at least 1.05 times the single-precision throughput, and it
\* is the single-precision one otherwise; the other pipe no longer exists.
C11_PrecisionSelection ==
    (pc = "done" /\ AutoPrecision) =>
        /\ PipeGot("OpenCL_float", "benchmark_time")
        /\ PipeGot("OpenCL_half", "benchmark_time")
        /\ pipes.m_forward \in {"OpenCL_half", "OpenCL_float"}
        /\ pipes.m_forward = "OpenCL_half" <=> 100 * Measured[2] >= 105 * Measured[1]
        /\ pipes.fp16net = "null"

\* half precision kept when it is exactly 5% faster
C11_Witness ==
    /\ pc = "done"
    /\ AutoPrecision
    /\ Measured = <<20, 21>>
    /\ pipes.m_forward = "OpenCL_half"

(***************************************************************************)
(* Properties of relative_difference.                                      *)
(***************************************************************************)
\* a magnitude, 361-fold, with everything below the floor 1/361 raised to it
Floored(x) == IF 361 * Abs(x) < One THEN One ELSE 361 * Abs(x)
\* q is the quotient |fa - fb| / min(fa, fb) of the floored magnitudes
IsFlooredQuotient(q, a, b) ==
    q = <<Abs(Floored(a) - Floored(b)), Min2(Floored(a), Floored(b))>>
AboveFloor(x) == 361 * Abs(x) > One

\* C12 as stated: the maximal value for every pair with a NaN and for every
\* pair whose signs disagree, and the floored quotient for pairs of equal sign.
C12_SignsAlwaysMaximal ==
    call.op = "relative_difference" =>
        IF call.a = NaN \/ call.b = NaN THEN call.err = FloatMax
        ELSE IF (call.a < 0) # (call.b < 0) THEN call.err = FloatMax
        ELSE IsFlooredQuotient(call.err, call.a, call.b)

\* C12, amended: the maximal value for every pair with a NaN and for every
\* pair whose signs disagree while both magnitudes exceed the floor 1/361;
\* for every other pair, of equal sign or not, the floored quotient.
C12_RelativeDifference ==
    call.op = "relative_difference" =>
        IF call.a = NaN \/ call.b = NaN THEN call.err = FloatMax
        ELSE IF (call.a < 0) # (call.b < 0) /\ AboveFloor(call.a) /\ AboveFloor(call.b)
          THEN call.err = FloatMax
        ELSE IsFlooredQuotient(call.err, call.a, call.b)

\* opposite signs, one magnitude below the floor: within the tolerance
C12_Witness ==
    /\ call.op = "relative_difference"
    /\ call.a < 0
    /\ call.a # NaN
    /\ call.b = One \div 361 + 1
    /\ ~AboveFloor(call.a)
    /\ ~ExceedsRelativeError(call.err)

(***************************************************************************)
(* Properties of the feature planes.                                       *)
(***************************************************************************)
\* the komi of the side to move as the tensor stores it, and the two planes
\* that gather_features fills with it
KomiOf(state, colour) ==
    IF colour = cfg.to_move THEN get_normalised_komi(state)
    ELSE One - get_normalised_komi(state)
PlaneHolds(input_data, plane, value) ==
    \A idx \in Vertices : input_data[At(plane, idx)] = value

\* C13: in the tensor gather_features returns, each of the two komi planes
\* holds one single scalar at every entry -- the normalised komi on one, its
\* complement on the other -- for every game state, also those with illegal
\* empty points or stones with exactly one liberty.
C13_KomiPlanesUniform ==
    call.op = "gather_features" =>
        /\ PlaneHolds(call.input_data, KomiPlanes, KomiOf(call.state, "BLACK"))
        /\ PlaneHolds(call.input_data, KomiPlanes + 1, KomiOf(call.state, "WHITE"))

\* C14: feature construction and policy un-permutation are inverse to each
\* other: with a symmetry-equivariant network get_output_internal(state, s)
\* returns, for every symmetry s, the policy, pass probability and win-rate
\* that it returns for the identity symmetry.
C14_SymmetryInverse ==
    (call.op = "get_output_internal" /\ cfg.net = "equivariant") =>
        call.result = get_output_internal(call.state, IDENTITY_SYMMETRY)

\* a quarter turn of a position with no symmetry of its own: the tensor
\* differs from the identity's, and the policy is not flat
C14_Witness ==
    /\ call.op = "get_output_internal"
    /\ cfg.net = "equivariant"
    /\ call.symmetry = 5
    /\ call.state.white # {}
    /\ gather_features(call.state, 5) # gather_features(call.state, IDENTITY_SYMMETRY)
    /\ \E v, w \in Vertices : call.result.policy[v] # call.result.policy[w]

(***************************************************************************)
(* Properties of get_output on a build with a reference pipe.              *)
(***************************************************************************)
\* the call ran forward passes: it neither hit the cache nor was turned away
RanPasses(c) == c.op = "get_output" /\ c.how \in {"evaluated", "thrown"}

\* C15: the forward passes of a get_output call that misses the cache follow
\* from the mode: DIRECT one pass on the primary pipe with the requested
\* symmetry; AVERAGE one pass on the primary pipe for each symmetry 0..7;
\* RANDOM_SYMMETRY one pass on the primary pipe with a symmetry in 0..7 and,
\* exactly when a reference pipe exists and the call is sampled for a
\* self-check, one more on the reference pipe with the same symmetry.  There
\* is no reference pipe when the primary pipe is the CPU pipe.
C15_ForwardPasses ==
    /\ [](/\ pipes.m_forward = "CPUPipe" => pipes.m_forward_cpu = "null"
          /\ RanPasses(call) =>
               /\ \A i \in 1 .. Len(call.passes) :
                     call.passes[i][1] # pipes.m_forward =>
                        /\ call.ensemble = "RANDOM_SYMMETRY"
                        /\ pipes.m_forward_cpu # "null"
                        /\ call.passes[i] = <<pipes.m_forward_cpu, call.sym>>
                        /\ i = 2
               /\ call.ensemble = "DIRECT" =>
                     call.passes = <<<<pipes.m_forward, call.symmetry>>>>
               /\ call.ensemble = "AVERAGE" =>
                     /\ Len(call.passes) = NUM_SYMMETRIES
                     /\ \A sym \in Symmetries :
                           call.passes[sym + 1] = <<pipes.m_forward, sym>>
               /\ call.ensemble = "RANDOM_SYMMETRY" =>
                     /\ call.sym \in Symmetries
                     /\ Len(call.passes) \in {1, 2}
                     /\ call.passes[1] = <<pipes.m_forward, call.sym>>)
    /\ [][RanPasses(call') =>
             (Len(checks') = Len(checks) + 1 <=>
                 /\ Len(call'.passes) = 2
                 /\ call'.passes[2][1] = pipes.m_forward_cpu)]_vars

\* a sampled call: the second pass ran on the reference pipe with symmetry 5
C15_Witness ==
    /\ call.op = "get_output"
    /\ call.how = "evaluated"
    /\ call.ensemble = "RANDOM_SYMMETRY"
    /\ call.passes = <<<<"OpenCL_float", 5>>, <<"CPUPipe_ref", 5>>>>

\* the failures among the last 10 entries of a sequence of outcomes
FailsAmongLast(seq) ==
    Cardinality({i \in 1 .. Len(seq) : i > Len(seq) - last_failure_window /\ seq[i]})

\* C16: when a self-check inside get_output brings the failures among the
\* most recent checks to the threshold, the call raises the error: it returns
\* no result, the cache is left as it was, and no further call is served.
C16_ThresholdRaises ==
    /\ [][(/\ Len(checks') = Len(checks) + 1
           /\ checks'[Len(checks')]
           /\ FailsAmongLast(checks') >= max_failures)
          => /\ thrown'
             /\ call'.how = "thrown"
             /\ call'.result = ZeroResult
             /\ m_nncache' = m_nncache]_vars
    /\ [][~thrown]_vars

\* the third divergence: the call has thrown, its position is not in the cache
C16_Witness ==
    /\ thrown
    /\ call.op = "get_output"
    /\ call.how = "thrown"
    /\ Len(call.passes) = 2
    /\ ~lookup(m_nncache, get_hash(call.state))
    /\ m_nncache # EmptyCache
    /\ FailsAmongLast(checks) = max_failures

(***************************************************************************)
(* Properties of get_output on a board of another size.                    *)
(***************************************************************************)
\* C17 as stated: a get_output call on a board whose size differs from
\* BOARD_SIZE is an assertion failure; it never returns a result.
C17_WrongSizeNeverReturns ==
    (call.op = "get_output" /\ call.state.boardsize # BOARD_SIZE) =>
        (asserts /\ call.how # "wrong_size")

\* C17, amended: a get_output call on a board whose size differs from
\* BOARD_SIZE returns a default result at once: no assertion fails, the cache
\* is neither probed nor written, no forward pass and no self-check is run.
C17_WrongSizeReturnsDefault ==
    [][(call'.op = "get_output" /\ call'.state.boardsize # BOARD_SIZE) =>
          /\ call'.how = "wrong_size"
          /\ call'.result = ZeroResult
          /\ call'.passes = <<>>
          /\ UNCHANGED <<asserts, m_nncache, checkVars>>]_vars

\* the position of the call is in the cache, and the call still returns the
\* default result
C17_Witness ==
    /\ call.op = "get_output"
    /\ call.state.boardsize # BOARD_SIZE
    /\ call.how = "wrong_size"
    /\ lookup(m_nncache, get_hash(call.state))
    /\ m_nncache[get_hash(call.state)] # ZeroResult
    /\ ~asserts

(***************************************************************************)
(* Properties of the calls that Network::initialize makes on the pipes.    *)
(***************************************************************************)
PipeNames == {"CPUPipe", "OpenCL_float", "OpenCL_half", "CPUPipe_ref"}
PipesSetUp == {pipes.m_forward, pipes.fp16net, pipes.m_forward_cpu} \ {"null"}
\* the tensor pushes a pipe has received, in order
PushesOf(p) ==
    LET IsPush(e) == Len(e) = 3 /\ e[1] = p /\ e[2] # "benchmark_time"
    IN  SelectSeq(pipes.log, IsPush)
\* the pushes the claim lists for a pipe, for a network of n residual blocks
ClaimedPushes(p, n) ==
    <<<<p, "initialize", channels>>, <<p, "push_input_convolution", <<0>>>>>>
    \o [k \in 1 .. n |->
          <<p, "push_residual", <<1 + 2 * (k - 1), 2 + 2 * (k - 1), k - 1>>>>]
    \o <<<<p, "push_convolve", "conv_pol_w">>, <<p, "push_convolve", "conv_val_w">>>>
\* the positions of the log that hold a transform of the shared tensors
TransformsAt == {i \in 1 .. Len(pipes.log) : Len(pipes.log[i]) = 2}

InCriticalSection ==
    {w \in Workers : workers.at[w] \in {"locked", "appended", "counted"}}

\* the last n entries of a sequence (all of it, when it is shorter)
LastOf(seq, n) ==
    IF Len(seq) <= n THEN seq ELSE SubSeq(seq, Len(seq) - n + 1, Len(seq))

\* C19: whatever the interleaving of the workers, the append, the count and
\* the trim of one call are one critical section under the self-check lock:
\* at most one worker is inside, the window is always the most recent
\* outcomes in the order the lock was taken and never holds more than 10
\* entries, and the error is raised exactly at the first outcome after which
\* 3 of the last 10 outcomes, in that order, are failures.
C19_CriticalSection ==
    LET n == Len(checks)
    IN  /\ Cardinality(InCriticalSection) <= 1
        /\ \A w \in InCriticalSection : workers.lock = w
        /\ Len(m_selfcheck_fails) <= last_failure_window
        /\ m_selfcheck_fails = LastOf(checks, Len(m_selfcheck_fails))
        /\ \A w \in Workers :
              workers.at[w] = "appended" => Len(m_selfcheck_fails) = Min2(n, 10)
        /\ \A k \in 1 .. (n - 1) : RecentFails(k) <= 2
        /\ thrown => n >= 1 /\ RecentFails(n) >= max_failures
        /\ (~thrown /\ n >= 1 /\ RecentFails(n) >= max_failures) =>
              \E w \in Workers : workers.at[w] = "appended"

\* the error is raised at the eleventh outcome, the window having been
\* trimmed before, while another worker waits for the lock with a failure
C19_Witness ==
    /\ thrown
    /\ Len(checks) = 11
    /\ Len(m_selfcheck_fails) = last_failure_window
    /\ ~checks[1]
    /\ \E w, v \in Workers :
          /\ workers.at[w] = "appended"
          /\ workers.at[v] = "compared"
          /\ workers.fail[v]

(***************************************************************************)
(* Properties of probe_cache.                                              *)
(***************************************************************************)
\* the symmetric probes are allowed for the position
ProbesAllowed(state) ==
    /\ ~cfg.noise
    /\ cfg.random_cnt = 0
    /\ 2 * state.movenum < opening_moves(BOARD_SIZE)

\* C20: probe_cache looks up the position's own hash first and returns that
\* entry when it is there; the 7 symmetric hashes decide only after an exact
\* miss and only with noise off, a zero random-move count and a move number
\* below half the opening moves; otherwise a position whose symmetric image
\* is cached is a miss (and so is evaluated), and a miss leaves the caller's
\* result as it was.
C20_ProbeOrder ==
    /\ [][(/\ call'.op = "get_output"
           /\ call'.state.boardsize = BOARD_SIZE
           /\ ~call'.skip_cache)
          => LET state == call'.state
                 exact == lookup(m_nncache, get_hash(state))
                 images == SymmetricHits(m_nncache, state)
             IN  /\ exact => /\ call'.how = "exact"
                             /\ call'.result = m_nncache[get_hash(state)]
                 /\ (~exact /\ ProbesAllowed(state) /\ images # {})
                       => call'.how = "symmetric"
                 /\ (~exact /\ ~(ProbesAllowed(state) /\ images # {}))
                       => /\ call'.how = "evaluated"
                          /\ call'.passes # <<>>]_vars
    /\ [](\A c \in Calls :
             ~probe_cache(m_nncache, c[1]).hit
                => probe_cache(m_nncache, c[1]).result = ZeroResult)

\* with noise on, a position whose symmetric image was in the cache has been
\* evaluated
C20_Witness ==
    /\ call.op = "get_output"
    /\ ~call.skip_cache
    /\ call.how = "evaluated"
    /\ cfg.noise
    /\ call.state.movenum = 1
    /\ \E sym \in Symmetries :
          /\ get_symmetry_hash(call.state, sym) # get_hash(call.state)
          /\ lookup(m_nncache, get_symmetry_hash(call.state, sym))

(***************************************************************************)
(* Properties of the line count of the weight file.                        *)
(***************************************************************************)
\* load_network_file has returned a loaded network
Accepted == pc \in {"returned", "transform"} /\ ret # <<>> /\ ret[1] # 0

\* C21: for every weight file that is accepted, the number of data lines
\* after the version line is 22 + 16 * N for the returned block count N,
\* with N >= 0; a file with fewer than 22 data lines is rejected.
C21_LineCount ==
    Accepted =>
        /\ ret[2] >= 0
        /\ wtfile.nlines = 22 + 16 * ret[2]
        /\ wtfile.nlines >= 22

(***************************************************************************)
(* skip_cache and the entry the startup benchmark leaves in the cache.     *)
(***************************************************************************)
BenchmarkHash == get_hash(BenchmarkState)

\* a get_output step, which ends in the call getOutput
GetOutputStep(skip) ==
    /\ pc = "done"
    /\ call'.op = "get_output"
    /\ call'.skip_cache = skip
    /\ call'.how # "wrong_size"

\* C22: a get_output call with skip_cache set never reads the cache and still
\* leaves its result under the position's hash; so the benchmark of an
\* automatic-precision start leaves an entry for the benchmark position,
\* computed by one of the two candidate pipes, and a later call without
\* skip_cache on that position returns the entry without a forward pass.
C22_SkipCacheStillInserts ==
    /\ [][GetOutputStep(TRUE) =>
            /\ call'.how \in {"evaluated", "thrown"}
            /\ call'.passes # <<>>
            /\ call'.how = "evaluated" =>
                  /\ lookup(m_nncache', get_hash(call'.state))
                  /\ ~lookup(m_nncache, get_hash(call'.state)) =>
                        m_nncache'[get_hash(call'.state)] = call'.result]_vars
    /\ [](pc = "done" /\ AutoPrecision =>
            /\ lookup(m_nncache, BenchmarkHash)
            /\ produced_by[BenchmarkHash] \in {"OpenCL_float", "OpenCL_half"})
    /\ [][GetOutputStep(FALSE) /\ AutoPrecision /\ call'.state = BenchmarkState =>
            /\ call'.how = "exact"
            /\ call'.passes = <<>>
            /\ call'.result = m_nncache[BenchmarkHash]
            /\ UNCHANGED <<m_nncache, produced_by>>]_vars

\* the half-precision pipe was kept, and a call without skip_cache was
\* answered with the entry that the single-precision pipe computed
C22_Witness ==
    /\ pc = "done"
    /\ AutoPrecision
    /\ call.op = "get_output"
    /\ call.state = BenchmarkState
    /\ ~call.skip_cache
    /\ call.how = "exact"
    /\ call.passes = <<>>
    /\ pipes.m_forward = "OpenCL_half"
    /\ produced_by[BenchmarkHash] = "OpenCL_float"
    /\ call.result = m_nncache[BenchmarkHash]

====
